---- MODULE Spec2Model ----
(***************************************************************************)
(* Model of main.py: export of Toggl time entries (CSV) into Google Drive  *)
(* as a Google Sheet, by name-based upsert.                                *)
(*                                                                         *)
(* Strings are sequences of atoms.  An atom is a one-character string for  *)
(* the characters the code or the Drive query grammar treats specially     *)
(* (quote, backslash, digits, sign, blank, underscore) and a run of plain  *)
(* characters otherwise.  Optional[str] is a record [set, v]: None has     *)
(* set = FALSE.  Drive file identifiers are the indices of `files`.        *)
(***************************************************************************)
EXTENDS Integers, Sequences, FiniteSets, TLC

VARIABLES
    env,        \* os.environ of the scheduled job, as seen by every run
    today,      \* dt.date.today(), as a proleptic Gregorian ordinal
    files,      \* the Drive account: sequence of file records, id = index
    files0,     \* history: the Drive account before any run started
    run,        \* per run: position in main / in the upsert, and its locals
    callOrder   \* history: the runs in the order their calls started

vars == <<env, today, files, files0, run, callOrder>>

Runs == {"r1", "r2"}

(***************************************************************************)
(* Bounds of the model.                                                    *)
(***************************************************************************)
MaxInitFiles == 2

(***************************************************************************)
(* Optional[str]                                                           *)
(***************************************************************************)
None == [set |-> FALSE, v |-> <<>>]

Some(s) == [set |-> TRUE, v |-> s]

\* Python truthiness of an Optional[str]: None and "" are falsy.
Truthy(o) == o.set /\ o.v # <<>>

EnvNames ==
    {"TOGGL_API_TOKEN", "TOGGL_WORKSPACE_ID", "GOOGLE_DRIVE_TOKEN",
     "DRIVE_FOLDER_ID", "START_DATE", "END_DATE", "DAYS", "WRITE_DAILY_COPY"}

\* os.environ.get(name)
EnvGet(e, name) == e[name]

GOOGLE_SHEETS_MIME == "application/vnd.google-apps.spreadsheet"

(***************************************************************************)
(* Helpers                                                                 *)
(***************************************************************************)
\* A mutant of require_env: the value is returned without the test.
require_env_always_ok(e, name) ==
    [ok |-> TRUE, v |-> EnvGet(e, name).v]

\* require_env: raises RuntimeError when the value is absent or empty.
require_env(e, name) ==
    IF ~Truthy(EnvGet(e, name))
    THEN [ok |-> FALSE, v |-> <<>>]
    ELSE [ok |-> TRUE, v |-> EnvGet(e, name).v]

\* str.strip() on a sequence of atoms: blanks at both ends go.
RECURSIVE LStrip(_)
LStrip(s) == IF s # <<>> /\ Head(s) = " " THEN LStrip(Tail(s)) ELSE s

RECURSIVE RStrip(_)
RStrip(s) ==
    IF s # <<>> /\ s[Len(s)] = " " THEN RStrip(SubSeq(s, 1, Len(s) - 1)) ELSE s

Strip(s) == RStrip(LStrip(s))

\* str.lower() on the word atoms the environments of the model use.
LowerAtom(a) ==
    CASE a = "TRUE" -> "true"
      [] a = "True" -> "true"
      [] a = "On" -> "on"
      [] a = "YES" -> "yes"
      [] a = "Y" -> "y"
      [] a = "FALSE" -> "false"
      [] OTHER -> a

Lower(s) == [i \in 1..Len(s) |-> LowerAtom(s[i])]

env_bool(e, name, default) ==
    LET v == EnvGet(e, name) IN
    IF ~v.set THEN default
    ELSE Lower(Strip(v.v)) \in {<<"1">>, <<"true">>, <<"yes">>, <<"y">>, <<"on">>}

(***************************************************************************)
(* Dates: datetime.date as an ordinal (date.toordinal), datetime.timedelta *)
(* as a number of days.                                                    *)
(***************************************************************************)
\* date.max.toordinal(): 9999-12-31
MaxOrdinal == 3652059

\* timedelta.max.days
MaxTimedeltaDays == 999999999

\* The civil date (y, m, d) of an ordinal, proleptic Gregorian calendar.
CivilFromOrdinal(n) ==
    LET z == n + 305                       \* days since 0000-03-01
        era == z \div 146097
        doe == z % 146097
        yoe == (doe - (doe \div 1460) + (doe \div 36524) - (doe \div 146096)) \div 365
        doy == doe - (365 * yoe + (yoe \div 4) - (yoe \div 100))
        mp == (5 * doy + 2) \div 153
        d == doy - ((153 * mp + 2) \div 5) + 1
        m == IF mp < 10 THEN mp + 3 ELSE mp - 9
        y == yoe + era * 400 + (IF m <= 2 THEN 1 ELSE 0)
    IN  [y |-> y, m |-> m, d |-> d]

\* Two decimal digits, zero padded.
Pad2(k) == <<ToString(k \div 10), ToString(k % 10)>>

\* iso_date: d.strftime("%Y-%m-%d") (years of four digits).
iso_date(n) ==
    LET c == CivilFromOrdinal(n) IN
    <<ToString(c.y), "-">> \o Pad2(c.m) \o <<"-">> \o Pad2(c.d)

\* int(str): blanks stripped, an optional sign, then digits, single
\* underscores allowed between digits; anything else is a ValueError.
DigitChars == {"0", "1", "2", "3", "4", "5", "6", "7", "8", "9"}

DigitVal(c) ==
    CASE c = "0" -> 0 [] c = "1" -> 1 [] c = "2" -> 2 [] c = "3" -> 3
      [] c = "4" -> 4 [] c = "5" -> 5 [] c = "6" -> 6 [] c = "7" -> 7
      [] c = "8" -> 8 [] c = "9" -> 9

RECURSIVE DigitsValue(_, _)
DigitsValue(s, acc) ==
    IF s = <<>> THEN acc
    ELSE IF Head(s) = "_" THEN DigitsValue(Tail(s), acc)
    ELSE DigitsValue(Tail(s), 10 * acc + DigitVal(Head(s)))

WellFormedDigits(s) ==
    /\ s # <<>>
    /\ \A i \in 1..Len(s) : s[i] \in DigitChars \cup {"_"}
    /\ s[1] # "_" /\ s[Len(s)] # "_"
    /\ \A i \in 1..(Len(s) - 1) : ~(s[i] = "_" /\ s[i + 1] = "_")

ParseInt(str) ==
    LET s == Strip(str)
        signed == s # <<>> /\ Head(s) \in {"+", "-"}
        body == IF signed THEN Tail(s) ELSE s
    IN  IF ~WellFormedDigits(body) THEN [ok |-> FALSE, val |-> 0]
        ELSE [ok |-> TRUE,
              val |-> IF signed /\ Head(s) = "-"
                      THEN 0 - DigitsValue(body, 0)
                      ELSE DigitsValue(body, 0)]

NoRange == [ok |-> FALSE, err |-> "", start |-> <<>>, end |-> <<>>]

RangeError(kind) == [NoRange EXCEPT !.err = kind]

\* resolve_date_range, with the current date t.
resolve_date_range(e, t) ==
    LET start == EnvGet(e, "START_DATE")
        end == EnvGet(e, "END_DATE")
    IN  IF Truthy(start) /\ Truthy(end)
        THEN [ok |-> TRUE, err |-> "", start |-> start.v, end |-> end.v]
        ELSE
          LET days == ParseInt(IF EnvGet(e, "DAYS").set
                               THEN EnvGet(e, "DAYS").v
                               ELSE <<"9", "0">>)
          IN  IF ~days.ok THEN RangeError("ValueError")
              ELSE IF days.val > MaxTimedeltaDays \/ days.val < 0 - MaxTimedeltaDays
              THEN RangeError("OverflowError")
              ELSE IF (t - days.val) < 1 \/ (t - days.val) > MaxOrdinal
              THEN RangeError("OverflowError")
              ELSE [ok |-> TRUE, err |-> "",
                    start |-> iso_date(t - days.val), end |-> iso_date(t)]

(***************************************************************************)
(* Google Drive, as the three calls of the program see it.  A file has a   *)
(* name, a set of parent folder ids, the trashed flag, its content and its *)
(* MIME type.                                                              *)
(***************************************************************************)
\* pageSize of the files().list call
PageSize == 5

Min(a, b) == IF a < b THEN a ELSE b

RECURSIVE Join(_, _)
Join(parts, sep) ==
    IF Len(parts) = 0 THEN <<>>
    ELSE IF Len(parts) = 1 THEN parts[1]
    ELSE parts[1] \o sep \o Join(Tail(parts), sep)

\* name.replace("'", "\\'"): a backslash before every quote, nothing else.
RECURSIVE SafeName(_)
SafeName(name) ==
    IF name = <<>> THEN <<>>
    ELSE IF Head(name) = "'" THEN <<"\\", "'">> \o SafeName(Tail(name))
    ELSE <<Head(name)>> \o SafeName(Tail(name))

\* The q parameter find_file_id_by_name builds.
BuildQuery(name, folder_id) ==
    LET q_parts ==
          <<  <<"name = ", "'">> \o SafeName(name) \o <<"'">>,
              <<"trashed = false">>  >>
          \o (IF Truthy(folder_id)
              THEN << <<"'">> \o folder_id.v \o <<"'", " in parents">> >>
              ELSE <<>>)
    IN  Join(q_parts, <<" and ">>)

\* Drive reads a quoted literal: \' is a quote and \\ a backslash, the
\* literal ends at the first unescaped quote.  What a backslash before any
\* other character means is not documented: every outcome is allowed.
\* s is the text after the opening quote; the result is the set of possible
\* readings [ok, val, rest].
RECURSIVE ScanLiteral(_, _)
ScanLiteral(s, acc) ==
    IF s = <<>> THEN {[ok |-> FALSE, val |-> acc, rest |-> <<>>]}
    ELSE IF Head(s) = "'" THEN {[ok |-> TRUE, val |-> acc, rest |-> Tail(s)]}
    ELSE IF Head(s) = "\\"
    THEN IF Len(s) = 1 THEN {[ok |-> FALSE, val |-> acc, rest |-> <<>>]}
         ELSE IF s[2] \in {"'", "\\"}
         THEN ScanLiteral(Tail(Tail(s)), Append(acc, s[2]))
         ELSE ScanLiteral(Tail(Tail(s)), acc \o <<"\\", s[2]>>)
              \cup ScanLiteral(Tail(Tail(s)), Append(acc, s[2]))
              \cup {[ok |-> FALSE, val |-> acc, rest |-> <<>>]}
    ELSE ScanLiteral(Tail(s), Append(acc, Head(s)))

BadQuery == [ok |-> FALSE, name |-> <<>>, scoped |-> FALSE, folder |-> <<>>]

\* Drive's reading of q: name = '<literal>' and trashed = false
\* [and '<literal>' in parents]; anything else is rejected (HTTP 400).
ParseQuery(q) ==
    IF Len(q) < 2 \/ q[1] # "name = " \/ q[2] # "'" THEN {BadQuery}
    ELSE UNION {
        IF ~lit.ok THEN {BadQuery}
        ELSE IF lit.rest = <<" and ", "trashed = false">>
        THEN {[ok |-> TRUE, name |-> lit.val, scoped |-> FALSE, folder |-> <<>>]}
        ELSE IF Len(lit.rest) >= 4
                /\ SubSeq(lit.rest, 1, 4) = <<" and ", "trashed = false", " and ", "'">>
        THEN { IF f.ok /\ f.rest = <<" in parents">>
               THEN [ok |-> TRUE, name |-> lit.val, scoped |-> TRUE, folder |-> f.val]
               ELSE BadQuery
               : f \in ScanLiteral(SubSeq(lit.rest, 5, Len(lit.rest)), <<>>) }
        ELSE {BadQuery}
        : lit \in ScanLiteral(SubSeq(q, 3, Len(q)), <<>>) }

\* The ids a parsed query selects.
Matches(store, p) ==
    {id \in 1..Len(store) :
        /\ store[id].name = p.name
        /\ ~store[id].trashed
        /\ (p.scoped => p.folder \in store[id].parents)}

\* Every order the service may return a set of ids in.
Orders(S) ==
    {s \in [1..Cardinality(S) -> S] : \A i, j \in 1..Cardinality(S) : i # j => s[i] # s[j]}

\* files().list(q, pageSize).execute(): the possible responses.
DriveList(store, q) ==
    UNION {
        IF ~p.ok THEN {[ok |-> FALSE, files |-> <<>>]}
        ELSE {[ok |-> TRUE, files |-> SubSeq(s, 1, Min(Len(s), PageSize))]
              : s \in Orders(Matches(store, p))}
        : p \in ParseQuery(q) }

\* find_file_id_by_name: the possible results; id = 0 is None.
find_file_id_by_name(store, name, folder_id) ==
    { IF ~res.ok THEN [ok |-> FALSE, listed |-> <<>>, id |-> 0]
      ELSE IF res.files = <<>> THEN [ok |-> TRUE, listed |-> <<>>, id |-> 0]
      ELSE [ok |-> TRUE, listed |-> res.files, id |-> res.files[1]]
      : res \in DriveList(store, BuildQuery(name, folder_id)) }

Descriptor(store, id) == [id |-> id, name |-> store[id].name]

\* A mutant of DriveUpdate: the update also sends metadata, and the file
\* becomes a spreadsheet.
DriveUpdateWithMetadata(store, id, media) ==
    [store EXCEPT ![id].content = media, ![id].mimeType = GOOGLE_SHEETS_MIME]

\* files().update(fileId, media_body): the content is replaced, nothing else.
DriveUpdate(store, id, media) == [store EXCEPT ![id].content = media]

\* The metadata of the create call; parents is the empty list when the key
\* is not set.
CreateMetadata(sheet_name, folder_id) ==
    [name |-> sheet_name, mimeType |-> GOOGLE_SHEETS_MIME,
     parents |-> IF Truthy(folder_id) THEN <<folder_id.v>> ELSE <<>>]

\* A mutant of DriveCreate: create-if-absent, an existing active file of the
\* name and parents is overwritten instead.
DriveCreateIfAbsent(store, metadata, media) ==
    LET ps == IF metadata.parents = <<>> THEN {<<"root">>}
              ELSE {metadata.parents[i] : i \in 1..Len(metadata.parents)}
        same == {id \in 1..Len(store) :
                    store[id].name = metadata.name /\ ~store[id].trashed
                    /\ store[id].parents = ps}
    IN  IF same # {}
        THEN [store EXCEPT ![CHOOSE id \in same : TRUE].content = media]
        ELSE Append(store, [name |-> metadata.name, parents |-> ps,
                            trashed |-> FALSE, content |-> media,
                            mimeType |-> metadata.mimeType])

\* files().create(body, media_body): a new file with a fresh id, in the
\* root when no parent is given.
DriveCreate(store, metadata, media) ==
    Append(store,
           [name |-> metadata.name,
            parents |-> IF metadata.parents = <<>> THEN {<<"root">>}
                        ELSE {metadata.parents[i] : i \in 1..Len(metadata.parents)},
            trashed |-> FALSE,
            content |-> media,
            mimeType |-> metadata.mimeType])

(***************************************************************************)
(* The runs.  A run is one execution of main (Spec) or one direct call of  *)
(* upsert_csv_as_google_sheet (SpecUpsert) or of resolve_date_range        *)
(* (SpecDates).  calls is the log of the remote calls the run has issued.  *)
(***************************************************************************)
Payloads == {"csv1", "csv2"}

IdleRun ==
    [pc |-> "idle", phase |-> "", csv |-> "", sheet_name |-> <<>>,
     folder_id |-> None, write_daily |-> FALSE, range |-> NoRange,
     existing_id |-> 0, listed |-> <<>>, rets |-> <<>>, err |-> "",
     calls |-> <<>>, created |-> {}, before |-> <<>>]

LogCall(rr, op, ok) == Append(rr.calls, [op |-> op, phase |-> rr.phase, ok |-> ok])

\* A mutant of Raise: the exception of a remote call is swallowed and the
\* run goes on to the next statement.
RaiseSwallowed(rr, kind, op) ==
    [rr EXCEPT !.calls = LogCall(rr, op, FALSE),
               !.pc = IF op = "fetch" THEN "build"
                      ELSE IF op = "list" THEN "create"
                      ELSE IF rr.phase = "latest" /\ rr.write_daily THEN "lookup"
                      ELSE "done",
               !.phase = IF op \in {"create", "update"} /\ rr.phase = "latest"
                            /\ rr.write_daily
                         THEN "daily" ELSE @]

\* An exception of a remote call: nothing catches it, the run ends.
Raise(rr, kind, op) ==
    [rr EXCEPT !.pc = "error", !.err = kind, !.calls = LogCall(rr, op, FALSE)]

latest_name == <<"toggl_time_entries_latest">>

daily_name(t) == <<"toggl_time_entries_">> \o iso_date(t)

\* The first statements of upsert_csv_as_google_sheet: the arguments are
\* bound and the lookup is next.
EnterUpsert(rr, phase, name) ==
    [rr EXCEPT !.pc = "lookup", !.phase = phase, !.sheet_name = name,
               !.existing_id = 0, !.listed = <<>>]

\* What follows the return of an upsert: the caller of a direct call has
\* its descriptor; main goes on with the dated copy, or is done.
AfterUpsert(rr, desc, t) ==
    LET got == [rr EXCEPT !.rets = Append(@, desc)] IN
    IF rr.phase = "direct" THEN [got EXCEPT !.pc = "returned"]
    ELSE IF rr.phase = "latest" /\ rr.write_daily
    THEN EnterUpsert(got, "daily", daily_name(t))
    ELSE [got EXCEPT !.pc = "done"]

\* main up to the fetch: the required values, the optional ones, the range.
MainPrologue(rr, e, t) ==
    IF \/ ~require_env(e, "TOGGL_API_TOKEN").ok
       \/ ~require_env(e, "TOGGL_WORKSPACE_ID").ok
       \/ ~require_env(e, "GOOGLE_DRIVE_TOKEN").ok
    THEN [rr EXCEPT !.pc = "error", !.err = "RuntimeError"]
    ELSE LET range == resolve_date_range(e, t) IN
         IF ~range.ok THEN [rr EXCEPT !.pc = "error", !.err = range.err]
         ELSE [rr EXCEPT !.pc = "fetch",
                         !.folder_id = EnvGet(e, "DRIVE_FOLDER_ID"),
                         !.write_daily = env_bool(e, "WRITE_DAILY_COPY", TRUE),
                         !.range = range]

\* json.loads of the token: the one well-formed token of the model.
ValidTokenJson(v) == v = <<"{token}">>

MainStart(r) ==
    /\ run[r].pc = "idle"
    /\ run' = [run EXCEPT ![r] = MainPrologue(run[r], env, today)]
    /\ UNCHANGED <<env, today, files, files0, callOrder>>

\* A mutant of Fetch: raise_for_status is missing, the body of a failure
\* response is returned as the CSV.
FetchWithoutStatusCheck(r) ==
    /\ run[r].pc = "fetch"
    /\ \E csv \in Payloads, ok \in BOOLEAN :
          run' = [run EXCEPT ![r] =
                    [run[r] EXCEPT !.pc = "build", !.csv = csv,
                                   !.calls = LogCall(run[r], "fetch", ok)]]
    /\ UNCHANGED <<env, today, files, files0, callOrder>>

\* fetch_toggl_csv: one POST; raise_for_status raises on a failure status.
Fetch(r) ==
    /\ run[r].pc = "fetch"
    /\ \/ \E csv \in Payloads :
            run' = [run EXCEPT ![r] =
                      [run[r] EXCEPT !.pc = "build", !.csv = csv,
                                     !.calls = LogCall(run[r], "fetch", TRUE)]]
       \/ run' = [run EXCEPT ![r] = Raise(run[r], "HTTPError", "fetch")]
    /\ UNCHANGED <<env, today, files, files0, callOrder>>

\* get_drive_service_from_token_json, then main enters the upsert of the
\* fixed name.  Whether the credentials are expired is up to the clock.
BuildDrive(r) ==
    /\ run[r].pc = "build"
    /\ \/ /\ ~ValidTokenJson(EnvGet(env, "GOOGLE_DRIVE_TOKEN").v)
          /\ run' = [run EXCEPT ![r] =
                       [run[r] EXCEPT !.pc = "error", !.err = "JSONDecodeError"]]
       \/ /\ ValidTokenJson(EnvGet(env, "GOOGLE_DRIVE_TOKEN").v)
          /\ run' = [run EXCEPT ![r] = EnterUpsert(run[r], "latest", latest_name)]
       \/ /\ ValidTokenJson(EnvGet(env, "GOOGLE_DRIVE_TOKEN").v)
          /\ run' = [run EXCEPT ![r] =
                       EnterUpsert([run[r] EXCEPT
                                      !.calls = LogCall(run[r], "refresh", TRUE)],
                                   "latest", latest_name)]
       \/ /\ ValidTokenJson(EnvGet(env, "GOOGLE_DRIVE_TOKEN").v)
          /\ run' = [run EXCEPT ![r] = Raise(run[r], "RefreshError", "refresh")]
    /\ UNCHANGED <<env, today, files, files0, callOrder>>

\* find_file_id_by_name and the test of its result.
Lookup(r) ==
    /\ run[r].pc = "lookup"
    /\ \/ \E res \in find_file_id_by_name(files, run[r].sheet_name, run[r].folder_id) :
            run' = [run EXCEPT ![r] =
                      IF ~res.ok THEN Raise(run[r], "HttpError 400", "list")
                      ELSE [run[r] EXCEPT
                              !.existing_id = res.id,
                              !.listed = res.listed,
                              !.pc = IF res.id # 0 THEN "update" ELSE "create",
                              !.calls = LogCall(run[r], "list", TRUE)]]
       \/ run' = [run EXCEPT ![r] = Raise(run[r], "HttpError", "list")]
    /\ UNCHANGED <<env, today, files, files0, callOrder>>

\* The update path of upsert_csv_as_google_sheet.
Update(r) ==
    /\ run[r].pc = "update"
    /\ \/ /\ files' = DriveUpdate(files, run[r].existing_id, run[r].csv)
          /\ run' = [run EXCEPT ![r] =
                       AfterUpsert([run[r] EXCEPT
                                      !.calls = LogCall(run[r], "update", TRUE)],
                                   Descriptor(files', run[r].existing_id), today)]
       \/ /\ run' = [run EXCEPT ![r] = Raise(run[r], "HttpError", "update")]
          /\ UNCHANGED files
    /\ UNCHANGED <<env, today, files0, callOrder>>

\* The create path of upsert_csv_as_google_sheet.
Create(r) ==
    /\ run[r].pc = "create"
    /\ \/ /\ files' = DriveCreate(files,
                                  CreateMetadata(run[r].sheet_name, run[r].folder_id),
                                  run[r].csv)
          /\ run' = [run EXCEPT ![r] =
                       AfterUpsert([run[r] EXCEPT
                                      !.calls = LogCall(run[r], "create", TRUE),
                                      !.created = @ \cup {Len(files')}],
                                   Descriptor(files', Len(files')), today)]
       \/ /\ run' = [run EXCEPT ![r] = Raise(run[r], "HttpError", "create")]
          /\ UNCHANGED files
    /\ UNCHANGED <<env, today, files0, callOrder>>

(***************************************************************************)
(* Direct calls, one per run and one after the other.                      *)
(***************************************************************************)
Quote == <<"it", "'", "s">>

OneBackslash == <<"\\">>

TwoBackslashes == <<"\\", "\\">>

UpsertNames == {Quote, OneBackslash, TwoBackslashes}

UpsertFolders == {None, Some(<<"F1">>)}

CallUpsert(r) ==
    /\ run[r].pc = "idle"
    /\ \A o \in Runs \ {r} : run[o].pc \in {"idle", "returned", "error"}
    /\ \E name \in UpsertNames, folder \in UpsertFolders, csv \in Payloads :
          run' = [run EXCEPT ![r] =
                    EnterUpsert([run[r] EXCEPT !.csv = csv, !.folder_id = folder,
                                               !.before = files],
                                "direct", name)]
    /\ callOrder' = Append(callOrder, r)
    /\ UNCHANGED <<env, today, files, files0>>

CallResolveDateRange(r) ==
    /\ run[r].pc = "idle"
    /\ LET range == resolve_date_range(env, today) IN
       run' = [run EXCEPT ![r] =
                 IF range.ok THEN [run[r] EXCEPT !.pc = "returned", !.range = range]
                 ELSE [run[r] EXCEPT !.pc = "error", !.err = range.err]]
    /\ UNCHANGED <<env, today, files, files0, callOrder>>

(***************************************************************************)
(* Initial states.  Identifiers are opaque, so the initial accounts are    *)
(* listed up to a renaming of the identifiers: files of nondecreasing kind.*)
(***************************************************************************)
\* The kinds of file a name has in an initial account: parents, trashed or
\* not, and, for the last four of the eight, a plain CSV file instead of a
\* spreadsheet.
Kind(name, k) ==
    [name |-> name,
     parents |-> IF k % 2 = 0 THEN {<<"F1">>} ELSE {<<"F2">>},
     trashed |-> (k \div 2) % 2 = 1,
     content |-> "csv0",
     mimeType |-> IF (k \div 4) % 2 = 0 THEN GOOGLE_SHEETS_MIME ELSE "text/csv"]

\* The accounts of at most MaxInitFiles files, each of one of the first
\* perName kinds of one of the names.
InitStores(names, perName) ==
    UNION {
        { [i \in 1..n |-> Kind(names[(f[i] \div perName) + 1], f[i] % perName)]
          : f \in {g \in [1..n -> 0..(perName * Len(names) - 1)] :
                      \A i \in 1..(n - 1) : g[i] <= g[i + 1]} }
        : n \in 0..MaxInitFiles }

NoEnv == [n \in EnvNames |-> None]

Today0 == 739926

RequiredValues == {None, Some(<<>>), Some(<<"secret">>)}

TokenValues == {None, Some(<<>>), Some(<<"{token}">>), Some(<<"garbage">>)}

EnvsMain ==
    { [NoEnv EXCEPT !["TOGGL_API_TOKEN"] = a, !["TOGGL_WORKSPACE_ID"] = w,
                    !["GOOGLE_DRIVE_TOKEN"] = g, !["DRIVE_FOLDER_ID"] = f,
                    !["WRITE_DAILY_COPY"] = c, !["DAYS"] = d]
      : a \in RequiredValues, w \in RequiredValues, g \in TokenValues,
        f \in {None, Some(<<>>), Some(<<"F1">>)},
        c \in {None, Some(<<"FALSE">>)},
        d \in {None, Some(<<>>)} }

Init ==
    /\ today = Today0
    /\ env \in EnvsMain
    /\ files \in InitStores(<<latest_name>>, 4)
    /\ files0 = files
    /\ run = [r \in Runs |-> IdleRun]
    /\ callOrder = <<>>

Next ==
    \E r \in Runs :
        \/ MainStart(r)
        \/ Fetch(r)
        \/ BuildDrive(r)
        \/ Lookup(r)
        \/ Update(r)
        \/ Create(r)

Spec == Init /\ [][Next]_vars

InitUpsert ==
    /\ today = Today0
    /\ env = NoEnv
    /\ files \in InitStores(<<Quote, OneBackslash>>, 8)
    /\ files0 = files
    /\ run = [r \in Runs |-> IdleRun]
    /\ callOrder = <<>>

NextUpsert ==
    \E r \in Runs :
        \/ CallUpsert(r)
        \/ Lookup(r)
        \/ Update(r)
        \/ Create(r)

SpecUpsert == InitUpsert /\ [][NextUpsert]_vars

DaysValues ==
    {None, Some(<<>>), Some(<<"9", "0">>), Some(<<"7">>), Some(<<"0">>),
     Some(<<"-", "1">>), Some(<<" ", "3", "0", " ">>), Some(<<"1", "_", "0">>),
     Some(<<"a", "b", "c">>), Some(<<"7", "5", "0", "0", "0", "0">>),
     Some(<<"1", "0", "0", "0", "0", "0", "0", "0", "0", "0">>)}

Todays == {738945, 738946, 739252, 739926}

EnvsDates ==
    { [NoEnv EXCEPT !["START_DATE"] = s, !["END_DATE"] = e, !["DAYS"] = d]
      : s \in {None, Some(<<>>), Some(<<"2024-01-01">>)},
        e \in {None, Some(<<>>), Some(<<"2024-03-31">>)},
        d \in DaysValues }

InitDates ==
    /\ today \in Todays
    /\ env \in EnvsDates
    /\ files = <<>>
    /\ files0 = files
    /\ run = [r \in Runs |-> IdleRun]
    /\ callOrder = <<>>

NextDates == \E r \in Runs : CallResolveDateRange(r)

SpecDates == InitDates /\ [][NextDates]_vars

(***************************************************************************)
(* Properties.                                                             *)
(***************************************************************************)
\* The active (non-trashed) objects named `name` in the container; in the
\* whole account when no container is given.
ActiveNamed(store, name, folder) ==
    {id \in 1..Len(store) :
        /\ store[id].name = name
        /\ ~store[id].trashed
        /\ (Truthy(folder) => folder.v \in store[id].parents)}

\* The run whose call is the latest: since its call started no other call
\* has touched the account.
Latest(r) == callOrder # <<>> /\ callOrder[Len(callOrder)] = r

Failed(rr) == \E i \in 1..Len(rr.calls) : ~rr.calls[i].ok

StorageOps == {"list", "create", "update"}

\* C1 (SpecUpsert): starting with at most one active object of the name in
\* the container, after two successful calls in sequence with the same
\* (name, container) exactly one active object of that name is in the
\* container, its content is the payload of the second call, and the second
\* call created nothing.
C1_UpsertIdempotentByName ==
    (/\ Len(callOrder) = 2
     /\ \A r \in Runs : run[r].pc = "returned"
     /\ run[callOrder[1]].sheet_name = run[callOrder[2]].sheet_name
     /\ run[callOrder[1]].folder_id = run[callOrder[2]].folder_id
     /\ Cardinality(ActiveNamed(files0, run[callOrder[1]].sheet_name,
                                run[callOrder[1]].folder_id)) <= 1)
    => LET last == run[callOrder[2]]
           now == ActiveNamed(files, last.sheet_name, last.folder_id)
       IN  /\ Cardinality(now) = 1
           /\ \A id \in now : files[id].content = last.csv
           /\ last.created = {}
           /\ Len(files) = Len(last.before)

\* C2 (SpecUpsert): when the lookup returns at least one object the upsert
\* never creates; once it has returned, the only change to the account is
\* that the content of the object the lookup returned first is the payload
\* (identifier, name, parents and format as before, no new object), and the
\* descriptor returned carries that identifier.
C2_UpdateChangesContentOnly ==
    \A r \in Runs :
        run[r].listed # <<>> =>
            /\ run[r].pc \in {"update", "returned", "error"}
            /\ run[r].existing_id = run[r].listed[1]
            /\ run[r].created = {}
            /\ (run[r].pc = "returned" /\ Latest(r)) =>
                  /\ files = [run[r].before EXCEPT
                                ![run[r].existing_id].content = run[r].csv]
                  /\ run[r].rets = <<[id |-> run[r].existing_id,
                                      name |-> run[r].before[run[r].existing_id].name]>>

\* The update path has run on a file that is no spreadsheet and held other
\* content.
C2_Witness ==
    \E r \in Runs :
        /\ run[r].pc = "returned" /\ Latest(r)
        /\ run[r].existing_id # 0
        /\ run[r].before[run[r].existing_id].mimeType = "text/csv"
        /\ run[r].before[run[r].existing_id].content # run[r].csv
        /\ files[run[r].existing_id].content = run[r].csv

\* C3 (SpecUpsert): a call that returns has created an object if and only
\* if no active object named exactly `name` was in the container; then the
\* account is the one before plus one spreadsheet of that name under a fresh
\* identifier, with the container as its only parent when one is given.
C3_CreatesIffNoExactMatch ==
    \A r \in Runs :
        (run[r].pc = "returned" /\ Latest(r)) =>
            LET none == ActiveNamed(run[r].before, run[r].sheet_name,
                                    run[r].folder_id) = {}
            IN  /\ (run[r].created # {}) <=> none
                /\ none =>
                     /\ Len(files) = Len(run[r].before) + 1
                     /\ SubSeq(files, 1, Len(run[r].before)) = run[r].before
                     /\ files[Len(files)].name = run[r].sheet_name
                     /\ files[Len(files)].mimeType = GOOGLE_SHEETS_MIME
                     /\ Truthy(run[r].folder_id) =>
                            files[Len(files)].parents = {run[r].folder_id.v}

\* C4 (Spec): lookup and create are separate steps; two runs that have each
\* created an object of one name (each after a lookup that found none) have
\* created two distinct objects, both active, with the same parents.
C4_BothCreatesLeaveDuplicates ==
    \A r1, r2 \in Runs :
        \A i \in run[r1].created, j \in run[r2].created :
            (r1 # r2 /\ files[i].name = files[j].name) =>
                /\ i # j
                /\ ~files[i].trashed /\ ~files[j].trashed
                /\ files[i].parents = files[j].parents
                /\ {i, j} \subseteq ActiveNamed(files, files[i].name, run[r1].folder_id)

\* The race: no active object of the fixed name at the start, both lookups
\* found none, and both runs created one.
C4_Witness ==
    /\ ActiveNamed(files0, latest_name, EnvGet(env, "DRIVE_FOLDER_ID")) = {}
    /\ \E r1, r2 \in Runs :
          /\ r1 # r2
          /\ \E i \in run[r1].created, j \in run[r2].created :
                /\ i # j
                /\ files[i].name = latest_name /\ files[j].name = latest_name
          /\ Cardinality(ActiveNamed(files, latest_name,
                                     EnvGet(env, "DRIVE_FOLDER_ID"))) = 2

\* Apart from a failure of the transport, the call has ended.
EndedWithoutTransportFailure(rr) ==
    rr.pc = "returned" \/ (rr.pc = "error" /\ rr.err # "HttpError")

\* C5 (SpecUpsert): with two or more active objects of the name in the
\* container the upsert raises no error: it overwrites the content of the
\* first object of the service's answer and changes nothing else, so the
\* same-named active objects are the ones before.
C5_AmbiguousMatchIsNoError ==
    \A r \in Runs :
        (/\ EndedWithoutTransportFailure(run[r])
         /\ Latest(r)
         /\ Cardinality(ActiveNamed(run[r].before, run[r].sheet_name,
                                    run[r].folder_id)) >= 2)
        => /\ run[r].pc = "returned"
           /\ run[r].listed # <<>>
           /\ files = [run[r].before EXCEPT ![run[r].listed[1]].content = run[r].csv]
           /\ ActiveNamed(files, run[r].sheet_name, run[r].folder_id)
                = ActiveNamed(run[r].before, run[r].sheet_name, run[r].folder_id)

\* C6 (Spec): a run whose fetch was answered with a failure status has
\* ended with that error, the fetch is the only remote call it ever issued,
\* and it has written nothing.
C6_FetchFailureStopsTheRun ==
    \A r \in Runs :
        (\E i \in 1..Len(run[r].calls) :
            run[r].calls[i].op = "fetch" /\ ~run[r].calls[i].ok)
        => /\ run[r].pc = "error"
           /\ run[r].err = "HTTPError"
           /\ Len(run[r].calls) = 1
           /\ \A i \in 1..Len(run[r].calls) : run[r].calls[i].op \notin StorageOps
           /\ run[r].created = {} /\ run[r].rets = <<>>

C6_Witness ==
    \E r \in Runs :
        /\ run[r].pc = "error"
        /\ run[r].calls = <<[op |-> "fetch", phase |-> "", ok |-> FALSE]>>

\* C7 (Spec): a failed remote call is the last call of its run and ends the
\* run with an error (no retry, nothing after a failed lookup); descriptors
\* come from successful creates and updates only; after a failure in the
\* upsert of the fixed name no call for the dated name is issued; what the
\* run created before the failure stays (no rollback).
C7_FailFast ==
    \A r \in Runs :
        LET c == run[r].calls IN
        /\ \A i \in 1..(Len(c) - 1) : c[i].ok
        /\ Failed(run[r]) => run[r].pc = "error"
        /\ Len(run[r].rets)
             = Cardinality({i \in 1..Len(c) : c[i].op \in {"create", "update"} /\ c[i].ok})
        /\ (Failed(run[r]) /\ c[Len(c)].phase = "latest")
             => \A i \in 1..Len(c) : c[i].phase # "daily"
        /\ \A id \in run[r].created : id <= Len(files) /\ ~files[id].trashed

\* The write of the fixed name failed in a run that was to write the dated
\* copy too.
C7_Witness ==
    \E r \in Runs :
        /\ run[r].pc = "error"
        /\ run[r].write_daily
        /\ run[r].calls # <<>>
        /\ LET last == run[r].calls[Len(run[r].calls)] IN
           ~last.ok /\ last.phase = "latest" /\ last.op \in {"create", "update"}

RequiredNames == {"TOGGL_API_TOKEN", "TOGGL_WORKSPACE_ID", "GOOGLE_DRIVE_TOKEN"}

\* C8 (Spec): with a required value absent (or empty) every run that has
\* started has ended with the configuration error, has issued no remote
\* call, and the account is untouched.
C8_ConfigErrorBeforeNetwork ==
    (\E n \in RequiredNames : ~Truthy(EnvGet(env, n)))
    => /\ files = files0
       /\ \A r \in Runs :
            run[r].pc # "idle" =>
                /\ run[r].pc = "error"
                /\ run[r].err = "RuntimeError"
                /\ run[r].calls = <<>>

\* The last of the three required values is the absent one.
C8_Witness ==
    /\ Truthy(EnvGet(env, "TOGGL_API_TOKEN"))
    /\ Truthy(EnvGet(env, "TOGGL_WORKSPACE_ID"))
    /\ ~EnvGet(env, "GOOGLE_DRIVE_TOKEN").set
    /\ \E r \in Runs : run[r].pc = "error" /\ run[r].err = "RuntimeError"

BothOverrides(e) == Truthy(EnvGet(e, "START_DATE")) /\ Truthy(EnvGet(e, "END_DATE"))

\* The look-back window the claim speaks of: the configured one, 90 when
\* none is configured.
ClaimedWindow(e) ==
    IF Truthy(EnvGet(e, "DAYS")) THEN ParseInt(EnvGet(e, "DAYS").v).val ELSE 90

\* C9 (SpecDates): for every configuration the call returns the overrides
\* as they are when both are supplied and non-empty, and otherwise
\* end = today and start = today minus N days, N the configured window and
\* 90 when none is configured.
C9_DateRangeResolution ==
    \A r \in Runs :
        run[r].pc # "idle" =>
            /\ run[r].pc = "returned"
            /\ IF BothOverrides(env)
               THEN /\ run[r].range.start = EnvGet(env, "START_DATE").v
                    /\ run[r].range.end = EnvGet(env, "END_DATE").v
               ELSE /\ run[r].range.end = iso_date(today)
                    /\ run[r].range.start = iso_date(today - ClaimedWindow(env))

\* C10 (SpecDates): for every value of the overrides and of the window
\* setting the call succeeds and returns a pair.
C10_ResolverAlwaysSucceeds ==
    \A r \in Runs :
        run[r].pc # "idle" => run[r].pc = "returned" /\ run[r].range.ok

(***************************************************************************)
(* How far the failures of C1, C3, C5, C9 and C10 reach: the same          *)
(* statements hold for names without a backslash, and for a window setting *)
(* that is absent or a number in range.                                    *)
(***************************************************************************)
NoBackslash(name) == \A i \in 1..Len(name) : name[i] # "\\"

NoBackslashCalls == \A r \in Runs : NoBackslash(run[r].sheet_name)

C1_HoldsWithoutBackslash == NoBackslashCalls => C1_UpsertIdempotentByName

C3_HoldsWithoutBackslash == NoBackslashCalls => C3_CreatesIffNoExactMatch

C5_HoldsWithoutBackslash == NoBackslashCalls => C5_AmbiguousMatchIsNoError

C9_HoldsWhenResolved ==
    \A r \in Runs :
        run[r].pc = "returned" =>
            IF BothOverrides(env)
            THEN /\ run[r].range.start = EnvGet(env, "START_DATE").v
                 /\ run[r].range.end = EnvGet(env, "END_DATE").v
            ELSE /\ run[r].range.end = iso_date(today)
                 /\ EnvGet(env, "DAYS").set
                      => run[r].range.start
                           = iso_date(today - ParseInt(EnvGet(env, "DAYS").v).val)
                 /\ ~EnvGet(env, "DAYS").set
                      => run[r].range.start = iso_date(today - 90)

====
